---- MODULE Spec2Model ----
(***************************************************************************)
(* Crossword constraint-satisfaction solver (crossword.py / generate.py).  *)
(* Python indices are kept 0-based; a word is a sequence of letters, and   *)
(* At(w, k) is the Python expression w[k].                                 *)
(***************************************************************************)
EXTENDS Integers, Sequences, FiniteSets, TLC

\* ---------------------------------------------------------------- bounds
GridH == 2
GridW == 3
MaxWordLen == 3
MaxVocab == 3
MaxVars == 3
MaxApiVocab == 2
MaxAc3Vars == 4
MaxAc3Vocab == 2
Ac3GridW == 2

Letters == {"A", "B"}

\* ---------------------------------------------------------------- state
VARIABLES
    structure,   \* Crossword.structure: [row, col] -> BOOLEAN (TRUE = fillable)
    words,       \* Crossword.words: the vocabulary, a set of words
    variables,   \* Crossword.variables: the set of Variable objects
    overlaps,    \* Crossword.overlaps: (v1, v2) -> None or <<i, j>>
    varOrder,    \* iteration order of the dict self.domains (fixed at construction)
    domains,     \* CrosswordCreator.domains: variable -> set of words
    pc,          \* position of the running solve() / of the caller
    queue,       \* ac3's local work queue
    ac3Result,   \* value returned by ac3 ("running" while it has not returned)
    emptied,     \* history: some domain went from non-empty to empty inside ac3
    stack,       \* backtrack's recursion stack (one frame per active call)
    result,      \* value returned by solve()
    call         \* the last direct method call: arguments, prior domains, outcome

vars == <<structure, words, variables, overlaps, varOrder, domains, pc, queue,
          ac3Result, emptied, stack, result, call>>

\* ---------------------------------------------------------------- values
\* Python's None for an overlap entry; an overlap is the pair <<i, j>>.
None == << >>

\* Python w[k] for 0 <= k < len(w)
At(w, k) == w[k + 1]

ACROSS == "across"
DOWN == "down"

Rows == 0 .. (GridH - 1)
Cols == 0 .. (GridW - 1)

RECURSIVE WordsOfLen(_)
WordsOfLen(n) ==
    IF n = 0 THEN {<< >>}
    ELSE {Append(w, l) : w \in WordsOfLen(n - 1), l \in Letters}

\* every word a vocabulary file of the bounded alphabet can hold
Pool == UNION {WordsOfLen(n) : n \in 1 .. MaxWordLen}

\* the vocabularies of at most k words
RECURSIVE Vocabularies(_)
Vocabularies(k) ==
    IF k = 0 THEN {{}}
    ELSE LET smaller == Vocabularies(k - 1)
         IN smaller \cup {ws \cup {w} : ws \in smaller, w \in Pool}

\* ---------------------------------------------------------------- crossword.py
\* Variable.__init__: the cells a variable occupies, in order
cells(v) ==
    [k \in 1 .. v.length |->
        << v.i + (IF v.direction = DOWN THEN k - 1 ELSE 0),
           v.j + (IF v.direction = ACROSS THEN k - 1 ELSE 0) >>]

Variable(i, j, direction, length) ==
    [i |-> i, j |-> j, direction |-> direction, length |-> length]

\* the inner "for k in range(i + 1, height)" loops: cells counted until the
\* first blocked one
RECURSIVE runDown(_, _, _)
runDown(s, k, j) ==
    IF k < GridH /\ s[k, j] THEN 1 + runDown(s, k + 1, j) ELSE 0

\* mutant of runAcross: the "break" missing, blocked cells are skipped over
RECURSIVE runAcrossNoBreak(_, _, _)
runAcrossNoBreak(s, i, k) ==
    IF k < GridW
    THEN (IF s[i, k] THEN 1 ELSE 0) + runAcrossNoBreak(s, i, k + 1)
    ELSE 0

RECURSIVE runAcross(_, _, _)
runAcross(s, i, k) ==
    IF k < GridW /\ s[i, k] THEN 1 + runAcross(s, i, k + 1) ELSE 0

startsDown(s, i, j) == s[i, j] /\ (i = 0 \/ ~s[i - 1, j])
\* mutant of startsAcross: the test of the preceding cell missing
startsAcrossAnywhere(s, i, j) == s[i, j]

startsAcross(s, i, j) == s[i, j] /\ (j = 0 \/ ~s[i, j - 1])

\* Crossword.__init__: the set of variables of a structure
extractVariables(s) ==
    {Variable(i, j, DOWN, 1 + runDown(s, i + 1, j)) :
        <<i, j>> \in {c \in Rows \X Cols :
            startsDown(s, c[1], c[2]) /\ 1 + runDown(s, c[1] + 1, c[2]) > 1}}
    \cup
    {Variable(i, j, ACROSS, 1 + runAcross(s, i, j + 1)) :
        <<i, j>> \in {c \in Rows \X Cols :
            startsAcross(s, c[1], c[2]) /\ 1 + runAcross(s, c[1], c[2] + 1) > 1}}

\* list.index: 0-based position of the first occurrence
indexOf(seq, c) == (CHOOSE k \in 1 .. Len(seq) :
                        seq[k] = c /\ \A m \in 1 .. (k - 1) : seq[m] # c) - 1

cellSet(v) == {cells(v)[k] : k \in 1 .. v.length}

\* mutant of overlapOf: cells1 indexed twice
overlapOfSameCells(v1, v2) ==
    LET intersection == cellSet(v1) \cap cellSet(v2) IN
    IF intersection = {} THEN None
    ELSE LET c == CHOOSE c \in intersection : TRUE IN
         << indexOf(cells(v1), c), indexOf(cells(v1), c) >>

\* Crossword.__init__: one overlap entry; intersection.pop() takes some cell
overlapOf(v1, v2) ==
    LET intersection == cellSet(v1) \cap cellSet(v2) IN
    IF intersection = {} THEN None
    ELSE LET c == CHOOSE c \in intersection : TRUE IN
         << indexOf(cells(v1), c), indexOf(cells(v2), c) >>

computeOverlaps(vs) ==
    [p \in {q \in vs \X vs : q[1] # q[2]} |-> overlapOf(p[1], p[2])]

\* Python truth value of an overlap entry: None is false, a pair is true
truthy(ov) == ov # None

\* Crossword.neighbors
neighbors(var) == {v \in variables : v # var /\ truthy(overlaps[v, var])}

\* ---------------------------------------------------------------- generate.py
\* CrosswordCreator.__init__: every variable starts with the whole vocabulary
initialDomains(vs, ws) == [v \in vs |-> ws]

\* mutant of enforceNodeConsistency: "<" for "!=", only shorter words removed
enforceNodeConsistencyShorter(doms) ==
    [v \in DOMAIN doms |-> doms[v] \ {word \in doms[v] : Len(word) < v.length}]

\* CrosswordCreator.enforceNodeConsistency: remove every word whose length
\* differs from the variable's length
enforceNodeConsistency(doms) ==
    [v \in DOMAIN doms |-> doms[v] \ {word \in doms[v] : Len(word) # v.length}]

\* mutant of matches: the comparison inverted
matchesInverted(xWord, xOverlap, yWord, yOverlap) ==
    At(xWord, xOverlap) # At(yWord, yOverlap)

\* the test "xWord[xOverlap] == yWord[yOverlap]" of revise
matches(xWord, xOverlap, yWord, yOverlap) ==
    At(xWord, xOverlap) = At(yWord, yOverlap)

\* an index used by revise lies outside some word it is applied to
reviseIndexError(doms, x, y, xOverlap, yOverlap) ==
    \/ doms[y] # {} /\ \E xWord \in doms[x] : xOverlap >= Len(xWord)
    \/ doms[x] # {} /\ \E yWord \in doms[y] : yOverlap >= Len(yWord)

\* the guard "if xOverlap:" of revise
overlapGuard(xOverlap) == xOverlap # 0

\* mutant of removeWords: the words leave every domain
removeWordsEverywhere(doms, x, unmatched) ==
    [v \in DOMAIN doms |-> doms[v] \ unmatched]

\* revise: "self.domains[x].remove(xWord)" for every word without a match
removeWords(doms, x, unmatched) ==
    [doms EXCEPT ![x] = doms[x] \ unmatched]

\* CrosswordCreator.revise(x, y): the new domains, the returned flag and the
\* exception raised, if any
revise(doms, x, y) ==
    IF overlaps[x, y] = None
    THEN \* "xOverlap, yOverlap = None" cannot be unpacked
         [domains |-> doms, ret |-> FALSE, exc |-> "TypeError"]
    ELSE
      LET xOverlap == overlaps[x, y][1]
          yOverlap == overlaps[x, y][2]
      IN
      IF overlapGuard(xOverlap)
      THEN IF reviseIndexError(doms, x, y, xOverlap, yOverlap)
           THEN [domains |-> doms, ret |-> FALSE, exc |-> "IndexError"]
           ELSE
             LET unmatched == {xWord \in doms[x] :
                                 ~\E yWord \in doms[y] :
                                     matches(xWord, xOverlap, yWord, yOverlap)}
             IN [domains |-> removeWords(doms, x, unmatched),
                 ret |-> unmatched # {},
                 exc |-> "none"]
      ELSE [domains |-> doms, ret |-> FALSE, exc |-> "none"]

\* every order in which the elements of a set can be iterated
RECURSIVE Perms(_)
Perms(S) ==
    IF S = {} THEN {<< >>}
    ELSE UNION {{<<e>> \o p : p \in Perms(S \ {e})} : e \in S}

\* ac3, "if not arcs": the arcs one variable contributes to the initial queue,
\* in every order the set neighbors(variable1) can be iterated
arcsOf(variable1) ==
    {SelectSeq([k \in 1 .. Len(p) |-> <<variable1, p[k]>>],
               LAMBDA arc : overlaps[arc[1], arc[2]] # None) :
        p \in Perms(neighbors(variable1))}

\* ac3, "if not arcs": the initial queues, variables taken in the order of
\* self.domains
RECURSIVE initialQueues(_)
initialQueues(order) ==
    IF order = << >> THEN {<< >>}
    ELSE {a \o q : a \in arcsOf(Head(order)), q \in initialQueues(Tail(order))}

\* mutant of domainEmpty: off by one, "len(self.domains[x]) <= 1"
domainEmptyAtMostOne(doms, x) == Cardinality(doms[x]) <= 1

\* mutant of domainEmpty: a test that never succeeds, "len(self.domains[x]) < 0"
domainEmptyNegative(doms, x) == Cardinality(doms[x]) < 0

\* mutant of domainEmpty: "== 1" for "== 0"
domainEmptyIsOne(doms, x) == Cardinality(doms[x]) = 1

\* ac3: the test "len(self.domains[x]) == 0" after a revision
domainEmpty(doms, x) == doms[x] = {}

\* ac3: the arcs appended after a revision of x against y
requeued(x, y) ==
    {[k \in 1 .. Len(p) |-> <<p[k], x>>] :
        p \in Perms({neighbour \in neighbors(x) : neighbour # y})}

\* mutant of nextQueues: the arcs are appended after every revision attempt
nextQueuesAlways(q, revisionMade, x, y) ==
    {Tail(q) \o a : a \in requeued(x, y)}

\* ac3: the queue after "queue.pop(0)" and, if revise returned True, the
\* appends
nextQueues(q, revisionMade, x, y) ==
    IF revisionMade
    THEN {Tail(q) \o a : a \in requeued(x, y)}
    ELSE {Tail(q)}

\* CrosswordCreator.assignmentComplete
assignmentComplete(assignment) ==
    \A variable \in DOMAIN domains : variable \in DOMAIN assignment

\* consistent: "len(words) != len(set(words))" is false
allDistinct(assignment) ==
    \A v1, v2 \in DOMAIN assignment : v1 # v2 => assignment[v1] # assignment[v2]

\* mutant of lengthsCorrect: ">" for "!=", longer words accepted
lengthsCorrectAtLeast(assignment) ==
    \A variable \in DOMAIN assignment : ~(variable.length > Len(assignment[variable]))

\* consistent: no "variable.length != len(assignment[variable])"
lengthsCorrect(assignment) ==
    \A variable \in DOMAIN assignment : variable.length = Len(assignment[variable])

\* consistent: the pairs (variable, neighbour) its last loop visits
assignedPairs(assignment) ==
    {p \in (DOMAIN assignment) \X (DOMAIN assignment) : p[2] \in neighbors(p[1])}

\* mutant of conflict: the comparison inverted
conflictInverted(assignment, variable, neighbour) ==
    At(assignment[variable], overlaps[variable, neighbour][1])
        = At(assignment[neighbour], overlaps[variable, neighbour][2])

\* consistent: "assignment[variable][x] != assignment[neighbour][y]"
conflict(assignment, variable, neighbour) ==
    At(assignment[variable], overlaps[variable, neighbour][1])
        # At(assignment[neighbour], overlaps[variable, neighbour][2])

\* consistent: a pair whose overlap entry cannot be unpacked or indexes
\* outside a word
consistentFault(assignment) ==
    IF \E p \in assignedPairs(assignment) : overlaps[p[1], p[2]] = None
    THEN "TypeError"
    ELSE IF \E p \in assignedPairs(assignment) :
                \/ overlaps[p[1], p[2]][1] >= Len(assignment[p[1]])
                \/ overlaps[p[1], p[2]][2] >= Len(assignment[p[2]])
         THEN "IndexError"
         ELSE "none"

\* CrosswordCreator.consistent: the returned value and the exception, if any
consistent(assignment) ==
    IF ~allDistinct(assignment) THEN [ret |-> FALSE, exc |-> "none"]
    ELSE IF ~lengthsCorrect(assignment) THEN [ret |-> FALSE, exc |-> "none"]
    ELSE IF consistentFault(assignment) # "none"
         THEN [ret |-> FALSE, exc |-> consistentFault(assignment)]
    ELSE [ret |-> ~\E p \in assignedPairs(assignment) :
                        conflict(assignment, p[1], p[2]),
          exc |-> "none"]

\* selectUnassignedVariable: the key of sorted(), len(item[1])
remaining(doms, v) == Cardinality(doms[v])

\* selectUnassignedVariable: the unassigned variables, in the order of
\* self.domains
choiceList(assignment) ==
    SelectSeq(varOrder, LAMBDA variable : variable \notin DOMAIN assignment)

\* CrosswordCreator.selectUnassignedVariable: sorted() is stable, so the
\* result is the first variable of choiceList with the fewest remaining values
selectUnassignedVariable(assignment) ==
    LET choice == choiceList(assignment)
        k == CHOOSE k \in 1 .. Len(choice) :
                /\ \A m \in 1 .. Len(choice) :
                     remaining(domains, choice[k]) <= remaining(domains, choice[m])
                /\ \A m \in 1 .. (k - 1) :
                     remaining(domains, choice[m]) # remaining(domains, choice[k])
    IN choice[k]

\* mutant of mismatch: the comparison inverted, agreeing words counted
mismatchInverted(word, xOverlap, neighbourWord, yOverlap) ==
    At(word, xOverlap) = At(neighbourWord, yOverlap)

\* orderDomainValues: the test "word[xOverlap] != neighbourWord[yOverlap]"
mismatch(word, xOverlap, neighbourWord, yOverlap) ==
    At(word, xOverlap) # At(neighbourWord, yOverlap)

\* orderDomainValues: what the loop over self.domains[neighbour] adds to
\* eliminated
eliminatedIn(word, var, neighbour) ==
    Cardinality({neighbourWord \in domains[neighbour] :
                    mismatch(word, overlaps[var, neighbour][1],
                             neighbourWord, overlaps[var, neighbour][2])})

\* orderDomainValues: the loop over the neighbours, assigned ones skipped
RECURSIVE eliminatedOver(_, _, _, _)
eliminatedOver(word, var, assignment, neighbours) ==
    IF neighbours = {} THEN 0
    ELSE LET neighbour == CHOOSE n \in neighbours : TRUE IN
         (IF neighbour \in DOMAIN assignment THEN 0
          ELSE eliminatedIn(word, var, neighbour))
         + eliminatedOver(word, var, assignment, neighbours \ {neighbour})

\* orderDomainValues: the value stored in wordDict[word]
eliminated(word, var, assignment) ==
    eliminatedOver(word, var, assignment, neighbors(var))

\* sorted(wordDict.items(), key=item[1]): one item put into a sorted list,
\* after the items whose count is not larger (the sort is stable)
insertItem(sorted, item) ==
    SelectSeq(sorted, LAMBDA it : it[2] <= item[2])
        \o <<item>>
        \o SelectSeq(sorted, LAMBDA it : it[2] > item[2])

RECURSIVE sortedByCount(_)
sortedByCount(items) ==
    IF items = << >> THEN << >>
    ELSE insertItem(sortedByCount(SubSeq(items, 1, Len(items) - 1)),
                    items[Len(items)])

\* CrosswordCreator.orderDomainValues: the lists it can return, one for each
\* order in which the set self.domains[var] fills wordDict
orderDomainValues(var, assignment) ==
    {LET items == [k \in 1 .. Len(p) |-> <<p[k], eliminated(p[k], var, assignment)>>]
         sortedItems == sortedByCount(items)
     IN [k \in 1 .. Len(sortedItems) |-> sortedItems[k][1]] :
        p \in Perms(domains[var])}

\* values of result
Pending == [kind |-> "pending"]
ReturnedNone == [kind |-> "None"]
Returned(assignment) == [kind |-> "assignment", assignment |-> assignment]
Raised(exc) == [kind |-> "raised", exc |-> exc]

EmptyAssignment == [v \in {} |-> << >>]

\* backtrack: "if len(assignment) == len(self.domains)"
isComplete(assignment) ==
    Cardinality(DOMAIN assignment) = Cardinality(DOMAIN domains)

\* mutant of callerAssignment: the value is written into the caller's mapping
callerAssignmentAliased(assignment, variable, value) ==
    (variable :> value) @@ assignment

\* backtrack: the assignment of the running call after "assignmentCopy =
\* assignment.copy()" and "assignmentCopy[variable] = value"
callerAssignment(assignment, variable, value) == assignment

\* backtrack(assignment), up to its loop: a complete assignment is returned
\* through every caller; otherwise a frame with the selected variable and its
\* domain, still to be tried, is pushed
enterBacktrack(stk, assignment) ==
    IF isComplete(assignment)
    THEN [stack |-> << >>, result |-> Returned(assignment), pc |-> "Done"]
    ELSE [stack |-> Append(stk,
                      [assignment |-> assignment,
                       variable |-> selectUnassignedVariable(assignment),
                       untried |-> domains[selectUnassignedVariable(assignment)]]),
          result |-> Pending, pc |-> "Searching"]

\* ---------------------------------------------------------------- solve()
NoCall == [op |-> "none"]

\* Crossword(structure, words) and CrosswordCreator(crossword), for every
\* grid and vocabulary within the bounds
Construct(maxVocab, maxVars) ==
    /\ structure \in [Rows \X Cols -> BOOLEAN]
    /\ Cardinality(extractVariables(structure)) <= maxVars
    /\ words \in Vocabularies(maxVocab)
    /\ variables = extractVariables(structure)
    /\ overlaps = computeOverlaps(variables)
    /\ varOrder \in Perms(variables)
    /\ domains = initialDomains(variables, words)
    /\ pc = "Unsolved"
    /\ queue = << >>
    /\ ac3Result = "notCalled"
    /\ emptied = FALSE
    /\ stack = << >>
    /\ result = Pending
    /\ call = NoCall

Init == Construct(MaxVocab, MaxVars)

\* solve, line 92
EnforceNodeConsistency ==
    /\ pc = "Unsolved"
    /\ domains' = enforceNodeConsistency(domains)
    /\ pc' = "NodeConsistent"
    /\ UNCHANGED <<structure, words, variables, overlaps, varOrder, queue,
                   ac3Result, emptied, stack, result, call>>

\* solve, line 93: ac3() is entered with arcs = None and builds its queue
Ac3Init ==
    /\ pc = "NodeConsistent"
    /\ queue' \in initialQueues(varOrder)
    /\ ac3Result' = "running"
    /\ pc' = "Propagating"
    /\ UNCHANGED <<structure, words, variables, overlaps, varOrder, domains,
                   emptied, stack, result, call>>

\* one iteration of ac3's while loop
Ac3Step ==
    /\ pc = "Propagating"
    /\ queue # << >>
    /\ LET x == Head(queue)[1]
           y == Head(queue)[2]
           r == revise(domains, x, y)
       IN
       /\ domains' = r.domains
       /\ emptied' = (emptied \/ \E v \in variables :
                                    domains[v] # {} /\ r.domains[v] = {})
       /\ IF r.exc # "none"
          THEN /\ pc' = "Done"
               /\ result' = Raised(r.exc)
               /\ UNCHANGED <<queue, ac3Result>>
          ELSE IF r.ret /\ domainEmpty(r.domains, x)
          THEN /\ ac3Result' = "False"
               /\ pc' = "Propagated"
               /\ UNCHANGED <<queue, result>>
          ELSE /\ queue' \in nextQueues(queue, r.ret, x, y)
               /\ UNCHANGED <<pc, ac3Result, result>>
    /\ UNCHANGED <<structure, words, variables, overlaps, varOrder, stack, call>>

\* ac3, line 158: the queue is empty
Ac3Return ==
    /\ pc = "Propagating"
    /\ queue = << >>
    /\ ac3Result' = "True"
    /\ pc' = "Propagated"
    /\ UNCHANGED <<structure, words, variables, overlaps, varOrder, domains,
                   queue, emptied, stack, result, call>>

\* solve, line 94: backtrack(dict()) is called whatever ac3 returned
BacktrackStart ==
    /\ pc = "Propagated"
    /\ LET e == enterBacktrack(<< >>, EmptyAssignment) IN
       /\ stack' = e.stack
       /\ result' = e.result
       /\ pc' = e.pc
    /\ UNCHANGED <<structure, words, variables, overlaps, varOrder, domains,
                   queue, ac3Result, emptied, call>>

\* backtrack, one iteration of "for value in self.domains[variable]" in the
\* innermost active call; the set is iterated in any order
BacktrackTry ==
    /\ pc = "Searching"
    /\ LET top == stack[Len(stack)] IN
       \E value \in top.untried :
          LET assignmentCopy == (top.variable :> value) @@ top.assignment
              rest == [stack EXCEPT
                         ![Len(stack)].untried = top.untried \ {value},
                         ![Len(stack)].assignment =
                             callerAssignment(top.assignment, top.variable, value)]
              c == consistent(assignmentCopy)
              e == enterBacktrack(rest, assignmentCopy)
          IN
          IF c.exc # "none"
          THEN /\ stack' = << >>
               /\ result' = Raised(c.exc)
               /\ pc' = "Done"
          ELSE IF c.ret
          THEN /\ stack' = e.stack
               /\ result' = e.result
               /\ pc' = e.pc
          ELSE /\ stack' = rest
               /\ UNCHANGED <<result, pc>>
    /\ UNCHANGED <<structure, words, variables, overlaps, varOrder, domains,
                   queue, ac3Result, emptied, call>>

\* backtrack, line 283: every value was tried, None goes to the caller
BacktrackFail ==
    /\ pc = "Searching"
    /\ stack[Len(stack)].untried = {}
    /\ stack' = SubSeq(stack, 1, Len(stack) - 1)
    /\ IF Len(stack) = 1
       THEN /\ result' = ReturnedNone
            /\ pc' = "Done"
       ELSE UNCHANGED <<result, pc>>
    /\ UNCHANGED <<structure, words, variables, overlaps, varOrder, domains,
                   queue, ac3Result, emptied, call>>

Next ==
    \/ EnforceNodeConsistency
    \/ Ac3Init
    \/ Ac3Step
    \/ Ac3Return
    \/ BacktrackStart
    \/ BacktrackTry
    \/ BacktrackFail

Spec == Init /\ [][Next]_vars

\* ---------------------------------------------------------------- propagation
\* enforceNodeConsistency() and ac3() alone, run to the end of ac3, on grids
\* of up to MaxAc3Vars variables whose fillable cells lie in the first
\* Ac3GridW columns; a running call keeps taking steps
InitAc3 ==
    /\ Construct(MaxAc3Vocab, MaxAc3Vars)
    /\ \A i \in Rows, j \in Cols : structure[i, j] => j < Ac3GridW

NextAc3 ==
    \/ EnforceNodeConsistency
    \/ Ac3Init
    \/ Ac3Step
    \/ Ac3Return

SpecAc3 == InitAc3 /\ [][NextAc3]_vars /\ WF_vars(NextAc3)

\* ---------------------------------------------------------------- direct calls
\* The methods of CrosswordCreator called one at a time by a client; call
\* records the arguments, the domains before the call and the outcome.

InitApi == Construct(MaxApiVocab, MaxVars)

\* every partial assignment of vocabulary words to variables
Assignments == UNION {[S -> words] : S \in SUBSET variables}

\* creator.enforceNodeConsistency()
CallEnforceNodeConsistency ==
    /\ pc \in {"Unsolved", "NodeConsistent"}
    /\ domains' = enforceNodeConsistency(domains)
    /\ pc' = "NodeConsistent"
    /\ call' = [op |-> "enforceNodeConsistency", pre |-> domains]
    /\ UNCHANGED <<structure, words, variables, overlaps, varOrder, queue,
                   ac3Result, emptied, stack, result>>

\* creator.revise(x, y) for two distinct variables, on node-consistent domains
CallRevise ==
    /\ pc = "NodeConsistent"
    /\ \E x \in variables, y \in variables :
          /\ x # y
          /\ LET r == revise(domains, x, y) IN
             /\ domains' = r.domains
             /\ call' = [op |-> "revise", x |-> x, y |-> y, pre |-> domains,
                         ret |-> r.ret, exc |-> r.exc]
    /\ UNCHANGED <<structure, words, variables, overlaps, varOrder, pc, queue,
                   ac3Result, emptied, stack, result>>

\* creator.consistent(assignment); a query changes nothing of the creator, so
\* the client is modelled as ending with it
CallConsistent ==
    /\ pc \in {"Unsolved", "NodeConsistent"}
    /\ \E assignment \in Assignments :
          LET c == consistent(assignment) IN
          call' = [op |-> "consistent", assignment |-> assignment,
                   pre |-> domains, ret |-> c.ret, exc |-> c.exc]
    /\ pc' = "Queried"
    /\ UNCHANGED <<structure, words, variables, overlaps, varOrder, domains,
                   queue, ac3Result, emptied, stack, result>>

\* creator.selectUnassignedVariable(assignment), some variable being unassigned
CallSelectUnassignedVariable ==
    /\ pc \in {"Unsolved", "NodeConsistent"}
    /\ \E assignment \in Assignments :
          /\ DOMAIN assignment # variables
          /\ call' = [op |-> "selectUnassignedVariable",
                      assignment |-> assignment, pre |-> domains,
                      ret |-> selectUnassignedVariable(assignment)]
    /\ pc' = "Queried"
    /\ UNCHANGED <<structure, words, variables, overlaps, varOrder, domains,
                   queue, ac3Result, emptied, stack, result>>

\* creator.orderDomainValues(var, assignment) for an unassigned variable, on
\* node-consistent domains
CallOrderDomainValues ==
    /\ pc = "NodeConsistent"
    /\ \E var \in variables, assignment \in Assignments :
          /\ var \notin DOMAIN assignment
          /\ \E ret \in orderDomainValues(var, assignment) :
                call' = [op |-> "orderDomainValues", var |-> var,
                         assignment |-> assignment, pre |-> domains, ret |-> ret]
    /\ pc' = "Queried"
    /\ UNCHANGED <<structure, words, variables, overlaps, varOrder, domains,
                   queue, ac3Result, emptied, stack, result>>

NextApi ==
    \/ CallEnforceNodeConsistency
    \/ CallRevise
    \/ CallConsistent
    \/ CallSelectUnassignedVariable
    \/ CallOrderDomainValues

SpecApi == InitApi /\ [][NextApi]_vars

\* ---------------------------------------------------------------- the grid model
\* Crossword(structure, words) alone, no CrosswordCreator yet: every grid
\* within the bounds, with a vocabulary of at most one word

NoDomains == [v \in {} |-> {}]

InitGrid ==
    /\ structure \in [Rows \X Cols -> BOOLEAN]
    /\ words \in Vocabularies(1)
    /\ variables = extractVariables(structure)
    /\ overlaps = computeOverlaps(variables)
    /\ varOrder = << >>
    /\ domains = NoDomains
    /\ pc = "NoCreator"
    /\ queue = << >>
    /\ ac3Result = "notCalled"
    /\ emptied = FALSE
    /\ stack = << >>
    /\ result = Pending
    /\ call = NoCall

\* crossword.neighbors(var)
CallNeighbors ==
    /\ pc = "NoCreator"
    /\ \E var \in variables :
          call' = [op |-> "neighbors", var |-> var, ret |-> neighbors(var)]
    /\ UNCHANGED <<structure, words, variables, overlaps, varOrder, domains, pc,
                   queue, ac3Result, emptied, stack, result>>

NextGrid == CallNeighbors

SpecGrid == InitGrid /\ [][NextGrid]_vars

\* ---------------------------------------------------------------- properties
\* a complete assignment as section 8 of the specification describes it: one
\* word per variable, all distinct, of the variable's length, equal letters
\* at the overlap offsets of every overlapping pair
ValidComplete(a) ==
    /\ DOMAIN a = variables
    /\ \A v \in variables : Len(a[v]) = v.length
    /\ \A v1, v2 \in variables : v1 # v2 => a[v1] # a[v2]
    /\ \A v1, v2 \in variables :
          (v1 # v2 /\ overlaps[v1, v2] # None) =>
              At(a[v1], overlaps[v1, v2][1]) = At(a[v2], overlaps[v1, v2][2])

SomeOverlap == \E v1, v2 \in variables : v1 # v2 /\ overlaps[v1, v2] # None

\* the domains node consistency alone leaves
LengthMatched == [v \in variables |-> {w \in words : Len(w) = v.length}]

\* C1: a non-None result of solve() is a complete assignment: one word per
\* variable, pairwise distinct, of the right lengths, agreeing at every overlap.
C1_ResultIsValidComplete ==
    (pc = "Done" /\ result.kind = "assignment") => ValidComplete(result.assignment)

C1_Witness ==
    /\ pc = "Done"
    /\ result.kind = "assignment"
    /\ SomeOverlap
    /\ Cardinality(variables) = MaxVars

SolutionExists == \E a \in [variables -> words] : ValidComplete(a)

\* C2: whenever some assignment of vocabulary words to all variables is
\* distinct, length-correct and agrees at every overlap, solve() returns an
\* assignment rather than None.
C2_SolveFindsSolution ==
    (pc = "Done" /\ SolutionExists) => result.kind = "assignment"

C2_Witness ==
    /\ pc = "Done"
    /\ SolutionExists
    /\ SomeOverlap
    /\ domains # LengthMatched
    /\ result.kind = "assignment"

\* C3: when ac3 has emptied a domain and returned False, solve() raises
\* nothing and returns None.
C3_Ac3FailureGivesNone ==
    ac3Result = "False" =>
        /\ result.kind # "raised"
        /\ pc = "Done" => result.kind = "None"

C3_Witness ==
    /\ pc = "Done"
    /\ ac3Result = "False"
    /\ emptied
    /\ result.kind = "None"

\* every word of domain(x) has a word of domain(y) agreeing with it at the
\* overlap of (x, y)
Supported(doms, x, y) ==
    \A w \in doms[x] : \E v \in doms[y] :
        At(w, overlaps[x, y][1]) = At(v, overlaps[x, y][2])

ArcConsistent(doms) ==
    \A x, y \in variables :
        (x # y /\ overlaps[x, y] # None) => Supported(doms, x, y)

\* C4: when ac3 returns True the domains are arc-consistent: for every
\* ordered overlapping pair (x, y), offset 0 in x included, every word of
\* domain(x) has a compatible word in domain(y).
C4_ArcConsistentOnSuccess ==
    ac3Result = "True" => ArcConsistent(domains)

\* C5: ac3 returns False exactly when a domain went from non-empty to empty
\* during propagation, it does so at that very step, and it returns True in
\* every run that empties no domain.
C5_FailureIffEmptied ==
    /\ emptied <=> ac3Result = "False"
    /\ emptied => pc # "Propagating"
    /\ (pc \in {"Propagated", "Searching", "Done"} /\ ~emptied /\ result.kind # "raised")
          => ac3Result = "True"

C5_Witness ==
    /\ pc = "Propagated"
    /\ emptied
    /\ ac3Result = "False"
    /\ \E v \in variables : domains[v] # {}

\* C6: after revise(x, y) on overlapping x and y, domain(x) holds no word
\* without a compatible word in domain(y), whatever the offset in x, and the
\* returned flag tells whether a word was removed.
C6_ReviseRemovesUnsupported ==
    (call.op = "revise" /\ overlaps[call.x, call.y] # None) =>
        /\ call.exc = "none"
        /\ Supported(domains, call.x, call.y)
        /\ call.ret <=> (domains[call.x] # call.pre[call.x])

\* C7: revise(x, y) on two variables that do not overlap completes without
\* error, changes no domain and returns false.
C7_ReviseNoOverlapIsNoOp ==
    (call.op = "revise" /\ overlaps[call.x, call.y] = None) =>
        /\ call.exc = "none"
        /\ domains = call.pre
        /\ call.ret = FALSE

\* C8: after enforceNodeConsistency() every domain is exactly the words it
\* held before whose length is the variable's length.
C8_NodeConsistencyExact ==
    call.op = "enforceNodeConsistency" =>
        \A v \in variables : domains[v] = {w \in call.pre[v] : Len(w) = v.length}

C8_Witness ==
    /\ call.op = "enforceNodeConsistency"
    /\ \E v \in variables :
          /\ domains[v] # {}
          /\ \E w \in call.pre[v] : Len(w) > v.length
    /\ \E v \in variables : \E w \in call.pre[v] : Len(w) < v.length

degree(v) == Cardinality({u \in variables : u # v /\ overlaps[v, u] # None})

\* C9: selectUnassignedVariable returns an unassigned variable with the
\* fewest remaining words and, among those tied on that, one with the most
\* neighbors.
C9_SelectMrvThenDegree ==
    call.op = "selectUnassignedVariable" =>
        LET unassigned == variables \ DOMAIN call.assignment IN
        /\ call.ret \in unassigned
        /\ \A u \in unassigned :
              Cardinality(domains[call.ret]) <= Cardinality(domains[u])
        /\ \A u \in unassigned :
              Cardinality(domains[u]) = Cardinality(domains[call.ret])
                  => degree(u) <= degree(call.ret)

\* conditions (a), (b) and (c) of section 4.3 of the specification
ConsistentSpec(a) ==
    /\ \A v1, v2 \in DOMAIN a : v1 # v2 => a[v1] # a[v2]
    /\ \A v \in DOMAIN a : Len(a[v]) = v.length
    /\ \A v1, v2 \in DOMAIN a :
          (v1 # v2 /\ overlaps[v1, v2] # None) =>
              At(a[v1], overlaps[v1, v2][1]) = At(a[v2], overlaps[v1, v2][2])

\* C10: consistent(assignment) raises nothing and returns true exactly when
\* the assigned words are pairwise distinct, each of its variable's length,
\* and equal at the overlap offsets of every overlapping assigned pair.
C10_ConsistentIff ==
    call.op = "consistent" =>
        /\ call.exc = "none"
        /\ call.ret <=> ConsistentSpec(call.assignment)

C10_Witness ==
    /\ call.op = "consistent"
    /\ call.ret
    /\ \E v1, v2 \in DOMAIN call.assignment : v1 # v2 /\ overlaps[v1, v2] # None
    /\ \E w \in words : \E v \in variables : Len(w) # v.length

\* a cell inside the grid that can be filled
Fillable(s, i, j) == i \in Rows /\ j \in Cols /\ s[i, j]

rowStep(d) == IF d = DOWN THEN 1 ELSE 0
colStep(d) == IF d = ACROSS THEN 1 ELSE 0

\* the length of the maximal run of fillable cells from (i, j) in direction d
MaximalRun(s, i, j, d) ==
    CHOOSE n \in 1 .. (GridH + GridW) :
        /\ \A k \in 0 .. (n - 1) : Fillable(s, i + k * rowStep(d), j + k * colStep(d))
        /\ ~Fillable(s, i + n * rowStep(d), j + n * colStep(d))

\* the variables section 4.1 of the specification describes
GridVariables(s) ==
    {Variable(t[1], t[2], t[3], MaximalRun(s, t[1], t[2], t[3])) :
        t \in {u \in Rows \X Cols \X {ACROSS, DOWN} :
                 /\ Fillable(s, u[1], u[2])
                 /\ ~Fillable(s, u[1] - rowStep(u[3]), u[2] - colStep(u[3]))
                 /\ MaximalRun(s, u[1], u[2], u[3]) > 1}}

\* C11: the extracted variables are exactly the maximal runs of at least two
\* fillable cells, one per direction and start cell whose preceding cell is
\* blocked or outside the grid; every cell of a variable is fillable.
C11_VariablesAreMaximalRuns ==
    /\ variables = GridVariables(structure)
    /\ \A v \in variables :
          /\ v.length >= 2
          /\ \A k \in 1 .. v.length : Fillable(structure, cells(v)[k][1], cells(v)[k][2])

C11_Witness ==
    /\ \E v \in variables : v.direction = ACROSS /\ v.length = 2
    /\ \E v \in variables : v.direction = DOWN
    /\ \E c \in Rows \X Cols :
          /\ structure[c]
          /\ \A v \in variables : c \notin cellSet(v)
    /\ call.op = "neighbors"

\* C12: the overlap map is mirror-consistent: (A, B) has no overlap exactly
\* when (B, A) has none, and an entry (i, j) for (A, B) comes with (j, i) for
\* (B, A), cell i of A being cell j of B.
C12_OverlapsMirrored ==
    \A a, b \in variables :
        a # b =>
            /\ (overlaps[a, b] = None) <=> (overlaps[b, a] = None)
            /\ overlaps[a, b] # None =>
                  /\ overlaps[b, a] = << overlaps[a, b][2], overlaps[a, b][1] >>
                  /\ cells(a)[overlaps[a, b][1] + 1] = cells(b)[overlaps[a, b][2] + 1]

C12_Witness ==
    /\ \E a, b \in variables :
          a # b /\ overlaps[a, b] # None /\ overlaps[a, b][1] # overlaps[a, b][2]
    /\ \E a, b \in variables : a # b /\ overlaps[a, b] = None
    /\ call.op = "neighbors"

\* C20: two distinct extracted variables share at most one cell, and none
\* when they run in the same direction.
C20_AtMostOneSharedCell ==
    \A a, b \in variables :
        a # b =>
            /\ Cardinality(cellSet(a) \cap cellSet(b)) <= 1
            /\ a.direction = b.direction => cellSet(a) \cap cellSet(b) = {}

C20_Witness ==
    /\ \E a, b \in variables :
          a # b /\ a.direction = b.direction /\ a.i = b.i /\ a.j # b.j
    /\ \E a, b \in variables : a # b /\ cellSet(a) \cap cellSet(b) # {}
    /\ call.op = "neighbors"

\* the phase changes of section 4.3's state machine; Propagated is the phase
\* ArcConsistent, Done with an assignment is Solved, Done with None is
\* Unsatisfiable
PhaseSteps ==
    { <<"Unsolved", "NodeConsistent">>, <<"NodeConsistent", "Propagating">>,
      <<"Propagating", "Propagated">>, <<"Propagated", "Searching">>,
      <<"Propagated", "Done">>, <<"Searching", "Done">> }

\* C13: a solve moves through the phases in order, and once ac3 has reported
\* failure it ends without ever entering the Searching phase.
C13_NoSearchAfterAc3Failure ==
    [][ /\ pc' # pc => <<pc, pc'>> \in PhaseSteps
        /\ ac3Result = "False" => pc' # "Searching" ]_vars

\* the elimination count of word w for var: the words of the unassigned
\* neighbours' domains that differ from w at the overlap
EliminationCount(w, var, assignment) ==
    Cardinality({nu \in (variables \ DOMAIN assignment) \X words :
                   /\ nu[1] # var
                   /\ overlaps[var, nu[1]] # None
                   /\ nu[2] \in domains[nu[1]]
                   /\ At(w, overlaps[var, nu[1]][1]) # At(nu[2], overlaps[var, nu[1]][2])})

\* C14: in backtrack the words of the selected variable are tried in the
\* order of orderDomainValues: no word is tried while a word with a strictly
\* smaller elimination count is still untried.
C14_ValuesTriedLeastConstrainingFirst ==
    pc = "Searching" =>
        \A k \in 1 .. Len(stack) :
            \A w \in domains[stack[k].variable] \ stack[k].untried :
                \A u \in stack[k].untried :
                    ~(EliminationCount(u, stack[k].variable, stack[k].assignment)
                        < EliminationCount(w, stack[k].variable, stack[k].assignment))

\* C17: orderDomainValues(var, assignment) returns every word of domain(var)
\* exactly once, in ascending order of elimination count, assigned neighbors
\* contributing nothing to the count.
C17_OrderedByEliminationCount ==
    call.op = "orderDomainValues" =>
        /\ Len(call.ret) = Cardinality(domains[call.var])
        /\ {call.ret[k] : k \in 1 .. Len(call.ret)} = domains[call.var]
        /\ \A i, j \in 1 .. Len(call.ret) :
              i < j => EliminationCount(call.ret[i], call.var, call.assignment)
                         <= EliminationCount(call.ret[j], call.var, call.assignment)
        /\ domains = call.pre

C17_Witness ==
    /\ call.op = "orderDomainValues"
    /\ Len(call.ret) = 2
    /\ EliminationCount(call.ret[1], call.var, call.assignment)
          < EliminationCount(call.ret[2], call.var, call.assignment)
    /\ \E n \in DOMAIN call.assignment :
          /\ overlaps[call.var, n] # None
          /\ \E u \in domains[n] :
                At(call.ret[1], overlaps[call.var, n][1]) # At(u, overlaps[call.var, n][2])

C18_SearchLeavesDomainsAndAssignments ==
    [][ (pc \in {"Propagated", "Searching"}) =>
          ( /\ domains' = domains
            /\ \A k \in 1..Len(stack) :
                  k <= Len(stack') =>
                      stack'[k].assignment = stack[k].assignment ) ]_vars

\* a search that recursed and failed at every depth
C18_Witness ==
    /\ pc = "Done"
    /\ result = ReturnedNone
    /\ Cardinality(variables) >= 2
    /\ \A v \in variables : domains[v] # {}

\* C19: no step of a solve adds a word to a domain: after every step each
\* domain is a subset of what it was and of the vocabulary, and a step of ac3
\* that revises the arc (x, y) changes no domain other than that of x.
C19_DomainsOnlyShrink ==
    [][ ( \A v \in variables :
              domains'[v] \subseteq domains[v] /\ domains'[v] \subseteq words )
        /\ ( (pc = "Propagating" /\ queue # << >>) =>
              ( \A v \in variables \ {Head(queue)[1]} :
                    domains'[v] = domains[v] ) ) ]_vars

\* node consistency and a revision have both removed words
C19_Witness ==
    /\ pc = "Propagated"
    /\ \E v \in variables : domains[v] # LengthMatched[v]
    /\ \E v \in variables : LengthMatched[v] # words

\* C16: ac3 always terminates: a running propagation reaches its return, with
\* the queue empty (True) or a domain emptied (False); and while it runs the
\* queue gets new arcs only in a step that strictly shrinks the domain of the
\* revised variable, otherwise it loses its head.
C16_Ac3Terminates ==
    /\ (pc = "Propagating") ~> (pc # "Propagating")
    /\ [][ (pc = "Propagating" /\ pc' = "Propagating") =>
             \/ queue' = Tail(queue)
             \/ /\ domains'[Head(queue)[1]] \subseteq domains[Head(queue)[1]]
                /\ domains'[Head(queue)[1]] # domains[Head(queue)[1]] ]_vars

\* a propagation where an arc was re-enqueued: the queue holds an arc twice
C16_Witness ==
    /\ pc = "Propagating"
    /\ \E i, j \in 1..Len(queue) : i < j /\ queue[i] = queue[j]

====
